---- MODULE Spec2Model ----
(***************************************************************************)
(* Model of the resilient upstream client of the Jira integration service  *)
(* (src/jira_service.py, class JiraService): retry executor, TTL response  *)
(* cache, issue fetcher and attachment streamer.                           *)
(*                                                                         *)
(* Every worker thread (asyncio.to_thread) runs one operation at a time.   *)
(* An operation is cut only where the code can block: taking the cache     *)
(* lock, one upstream GET, one backoff sleep, one pull on the chunk        *)
(* generator.  Everything else between two such points is one step.        *)
(*                                                                         *)
(* Every worker keeps a log of the events of its current operation         *)
(* (requests, closes, sleeps, cache reads and writes); the properties are  *)
(* stated over that log.                                                   *)
(*                                                                         *)
(* The normalization of a raw document (_to_issue_response and its         *)
(* helpers) is a set of pure functions; norm holds one call of one of      *)
(* them, its argument and, once it has run, its value.                     *)
(***************************************************************************)
EXTENDS Integers, Sequences, FiniteSets, TLC

VARIABLES settings, cache, lock, now, wk, norm

vars == <<settings, cache, lock, now, wk, norm>>

(***************************************************************************)
(* Bounds of the model.                                                    *)
(***************************************************************************)
\* most spaces on either side of an issue key handed to the core
MaxPad == 1
\* the monotonic clock stops advancing here
MaxTime == 3
\* cache_ttl_seconds of the modelled configuration, in clock ticks
CacheTtl == 2
\* largest retry_max_attempts of the configurations of Spec and SpecStream
AttemptsBound == 2
\* most chunks a consumer pulls from one attachment stream
MaxChunks == 2

(***************************************************************************)
(* Program constants.                                                      *)
(***************************************************************************)
\* Field(ge=1, le=8) of retry_max_attempts
MinRetryAttempts == 1
MaxRetryAttempts == 8
\* retry_backoff_seconds default, in milliseconds
DefaultBackoffMs == 500

\* the worker threads of asyncio.to_thread; the specifications below run
\* the operations of one of them, one after the other
Workers == {"w1", "w2"}

\* the value of lock when no worker holds it
NoWorker == "none"

(***************************************************************************)
(* Strings are sequences of one-character strings.                         *)
(***************************************************************************)
Alphabet == {"a", "A", " "}

IsSpace(c) == c = " "

UpperChar(c) == IF c = "a" THEN "A" ELSE c

\* n spaces
RECURSIVE Spaces(_)
Spaces(n) == IF n = 0 THEN <<>> ELSE <<" ">> \o Spaces(n - 1)

\* issue keys without surrounding whitespace: the empty one, one key in
\* both letter cases, and one with whitespace inside
KeyCores == {<<>>, <<"a">>, <<"A">>, <<"a", " ", "A">>}

\* the issue keys handed to the core: a core with up to MaxPad spaces on
\* either side
RawKeys == {Spaces(l) \o c \o Spaces(r) : l \in 0..MaxPad, c \in KeyCores, r \in 0..MaxPad}

RECURSIVE LStrip(_)
LStrip(s) ==
    IF s = <<>> THEN <<>>
    ELSE IF IsSpace(Head(s)) THEN LStrip(Tail(s)) ELSE s

RECURSIVE RStrip(_)
RStrip(s) ==
    IF s = <<>> THEN <<>>
    ELSE IF IsSpace(s[Len(s)]) THEN RStrip(SubSeq(s, 1, Len(s) - 1)) ELSE s

\* str.strip()
Strip(s) == RStrip(LStrip(s))

\* str.upper()
Upper(s) == [i \in 1..Len(s) |-> UpperChar(s[i])]

\* urllib.parse.quote(s, safe=''): letters stay, a space becomes %20
RECURSIVE Quote(_)
Quote(s) ==
    IF s = <<>> THEN <<>>
    ELSE (IF IsSpace(Head(s)) THEN <<"%20">> ELSE <<Head(s)>>) \o Quote(Tail(s))

\* f"{jira_base_url}/rest/api/3/issue/{quote(issue_key, safe='')}"
IssueUrl(issue_key) == <<"/rest/api/3/issue/">> \o Quote(issue_key)

\* mutant: the key is not upper-cased
NormalizeKeyNoUpper(k) == Strip(k)

\* mutant: the key is not trimmed
NormalizeKeyNoStrip(k) == Upper(k)

\* normalized_key = issue_key.strip().upper()
NormalizeKey(k) == Upper(Strip(k))

(***************************************************************************)
(* Raw issue documents.  An upstream attachment entry is {id, content};    *)
(* its id may be a string, a number or absent, its content a URL or absent.*)
(***************************************************************************)
\* the "id" of a raw attachment: t is "str", "int" or "none"
StrId(s) == [t |-> "str", s |-> s, n |-> 0]
IntId(n) == [t |-> "int", s |-> <<>>, n |-> n]
NoId == [t |-> "none", s |-> <<>>, n |-> 0]

\* URLs are strings too; an absent or empty content URL is the empty one
NoUrl == <<>>

Attachment(id, content) == [id |-> id, content |-> content]

\* str(item.get("id")): str(None) is "None"
PyStr(id) ==
    CASE id.t = "str" -> id.s
      [] id.t = "int" -> (CASE id.n = 7 -> <<"7">> [] id.n = 8 -> <<"8">>
                            [] id.n = 10001 -> <<"1", "0", "0", "0", "1">>
                            [] OTHER -> <<"?">>)
      [] OTHER -> <<"N", "o", "n", "e">>

Doc(ver, attachment) == [ver |-> ver, attachment |-> attachment]

NoDoc == Doc(0, <<>>)

\* the documents the upstream can answer with
Docs ==
    { Doc(1, << Attachment(StrId(<<"7">>), <<"u", "7">>), Attachment(IntId(8), <<"u", "8">>) >>),
      Doc(2, << Attachment(NoId, <<"u", "0">>), Attachment(StrId(<<"7">>), NoUrl) >>) }

AttachmentIds == {<<"7">>, <<"8">>, <<"9">>, <<"N", "o", "n", "e">>}

(***************************************************************************)
(* Events of an operation's log.                                           *)
(*   req    one requests.get: kind is "status", "timeout" or "error"       *)
(*   close  response.close() of the response of attempt n of the phase     *)
(*   sleep  time.sleep(ms)                                                 *)
(*   get    one read of the cache map (kind "hit" or "miss")               *)
(*   put    one write of the cache map                                     *)
(***************************************************************************)
Event(ev, phase, n, kind, status, ms) ==
    [ev |-> ev, phase |-> phase, n |-> n, kind |-> kind, status |-> status, ms |-> ms]

ReqEvent(phase, n, kind, status) == Event("req", phase, n, kind, status, 0)
CloseEvent(phase, n) == Event("close", phase, n, "", 0, 0)
SleepEvent(phase, n, ms) == Event("sleep", phase, n, "", 0, ms)
GetEvent(kind) == Event("get", "cache", 0, kind, 0, 0)
PutEvent == Event("put", "cache", 0, "", 0, 0)

\* the events of kind ev of a log, in order
Events(log, ev) == SelectSeq(log, LAMBDA e : e.ev = ev)

\* the requests of one invocation of _request_with_retry
Requests(log, phase) == SelectSeq(log, LAMBDA e : e.ev = "req" /\ e.phase = phase)

Sleeps(log, phase) == SelectSeq(log, LAMBDA e : e.ev = "sleep" /\ e.phase = phase)

\* how often the response of attempt n of the phase was closed
Closes(log, phase, n) ==
    Len(SelectSeq(log, LAMBDA e : e.ev = "close" /\ e.phase = phase /\ e.n = n))

(***************************************************************************)
(* Results of an operation.                                                *)
(***************************************************************************)
Result(kind, status, doc, msg) == [kind |-> kind, status |-> status, doc |-> doc, msg |-> msg]

NoResult == Result("none", 0, NoDoc, "")

\* the value returned by _get_issue_raw_cached
DocResult(doc) == Result("doc", 0, doc, "")

\* the AttachmentStream returned by _get_attachment_stream_sync
StreamResult == Result("stream", 0, NoDoc, "")

JiraNotFoundError(msg) == Result("NotFound", 0, NoDoc, msg)
JiraUnauthorizedError(msg, status_code) == Result("Unauthorized", status_code, NoDoc, msg)
JiraTimeoutError(msg) == Result("Timeout", 0, NoDoc, msg)
JiraNetworkError(msg) == Result("NetworkUnreachable", 0, NoDoc, msg)
JiraError(msg) == Result("UpstreamError", 0, NoDoc, msg)

Failures == {"NotFound", "Unauthorized", "Timeout", "NetworkUnreachable", "UpstreamError"}

(***************************************************************************)
(* The response _request_with_retry returned to its caller: the attempt    *)
(* that produced it, its status and its body.                              *)
(***************************************************************************)
Body(ok, doc) == [ok |-> ok, doc |-> doc]

\* a body that is not JSON
NoBody == Body(FALSE, NoDoc)

Response(phase, n, status, body) == [phase |-> phase, n |-> n, status |-> status, body |-> body]

NoResponse == Response("none", 0, 0, NoBody)

(***************************************************************************)
(* What a route answers (src/main.py): the HTTP status and, on the tool    *)
(* endpoint, the fields ok, error.code and data of the JiraToolResponse.   *)
(***************************************************************************)
Reply(status, ok, code, data) == [status |-> status, ok |-> ok, code |-> code, data |-> data]

NoReply == Reply(0, FALSE, "", NoDoc)

\* the answer of the framework to a parameter that fails its pattern
Unprocessable == Reply(422, FALSE, "", NoDoc)

(***************************************************************************)
(* A worker: the locals of the operation it runs, the route that called    *)
(* it (if any) and the answer of that route.                               *)
(***************************************************************************)
IdleWorker ==
    [pc |-> "idle", op |-> "none", key |-> <<>>, att |-> <<>>, nkey |-> <<>>,
     phase |-> "none", attempt |-> 0, doc |-> NoDoc, url |-> NoUrl,
     gen |-> "none", chunks |-> 0, genClosed |-> FALSE, ended |-> FALSE, raised |-> FALSE,
     response |-> NoResponse, result |-> NoResult, log |-> <<>>,
     params |-> {}, stream |-> FALSE,
     route |-> "none", reply |-> NoReply]

Logged(r, e) == [r EXCEPT !.log = Append(@, e)]

\* an exception propagates out of the operation
Raise(r, failure) == [r EXCEPT !.pc = "done", !.result = failure]

(***************************************************************************)
(* Settings (src/config.py).  Times of the retry backoff are milliseconds. *)
(***************************************************************************)
Settings(attempts, backoff, enabled, ttl) ==
    [retry_max_attempts |-> attempts, retry_backoff_seconds |-> backoff,
     enable_response_cache |-> enabled, cache_ttl_seconds |-> ttl]

\* the configured bases of the backoff: none, and the default 0.5 s
BackoffBases == {0, DefaultBackoffMs}

(***************************************************************************)
(* Retry executor: _request_with_retry.                                    *)
(***************************************************************************)
RECURSIVE Pow2(_)
Pow2(n) == IF n <= 0 THEN 1 ELSE 2 * Pow2(n - 1)

\* mutant: every status of 400 or more is retried
ShouldReturnBelow400(status_code, attempt, attempts) ==
    status_code < 400 \/ attempt = attempts

\* mutant: a status of exactly 500 is not retried
ShouldReturnUpTo500(status_code, attempt, attempts) ==
    status_code <= 500 \/ attempt = attempts

\* mutant: the last attempt is not recognised
ShouldReturnNoLast(status_code, attempt, attempts) ==
    status_code < 500

\* mutant: the last attempt is compared past the range of the loop
ShouldReturnPastLast(status_code, attempt, attempts) ==
    status_code < 500 \/ attempt > attempts

\* if response.status_code < 500 or attempt == attempts: return response
ShouldReturn(status_code, attempt, attempts) ==
    status_code < 500 \/ attempt = attempts

\* mutant: the backoff grows linearly
BackoffLinear(base, attempt) == base * attempt

\* backoff = retry_backoff_seconds * (2 ** (attempt - 1))
Backoff(base, attempt) == base * Pow2(attempt - 1)

\* mutant: the handler of RequestException comes first and takes the timeout
TransportFailureNoTimeout(kind) ==
    JiraNetworkError("Unable to connect to Jira API")

\* except Timeout ... / except RequestException ...
TransportFailure(kind) ==
    IF kind = "timeout" THEN JiraTimeoutError("Jira request timed out")
    ELSE JiraNetworkError("Unable to connect to Jira API")

\* mutant: the attachment request is sent with the query of the issue request
RequestParamsOfIssue(phase) == {"expand"}

\* the query parameters of the call: params = {"expand": ...} for the issue,
\* none for the attachment content
RequestParams(phase) == IF phase = "issue" THEN {"expand"} ELSE {}

\* the stream argument of the call: stream=True for the attachment content
RequestStream(phase) == phase = "attachment"

\* for attempt in range(1, attempts + 1): the loop is entered at attempt 1,
\* and left by the raise after it when the range is empty
EnterRetry(r, phase, url, attempts) ==
    IF 1 <= attempts
    THEN [r EXCEPT !.pc = "request", !.phase = phase, !.attempt = 1, !.url = url,
                   !.params = RequestParams(phase), !.stream = RequestStream(phase)]
    ELSE Raise([r EXCEPT !.phase = phase], JiraError("Unexpected Jira retry state"))

\* the loop goes on to the next attempt after the sleep
NextAttempt(r, attempts) ==
    IF r.attempt + 1 <= attempts
    THEN [r EXCEPT !.pc = "request", !.attempt = @ + 1]
    ELSE Raise(r, JiraError("Unexpected Jira retry state"))

\* mutant: the sleep comes first and the response is closed after it
CloseAndSleepSleepFirst(r, base) ==
    [Logged(Logged(r, SleepEvent(r.phase, r.attempt, Backoff(base, r.attempt))),
            CloseEvent(r.phase, r.attempt))
     EXCEPT !.pc = "sleep"]

\* response.close(); time.sleep(backoff) of a retried 5xx
CloseAndSleep(r, base) ==
    [Logged(Logged(r, CloseEvent(r.phase, r.attempt)),
            SleepEvent(r.phase, r.attempt, Backoff(base, r.attempt)))
     EXCEPT !.pc = "sleep"]

(***************************************************************************)
(* Attachment streamer: _get_attachment_stream_sync.                       *)
(***************************************************************************)
\* mutant: the raw id is compared as it is, without str()
FindAttachmentNoStr(attachments, attachment_id) ==
    LET hits == {i \in 1..Len(attachments) :
                    attachments[i].id.t = "str" /\ attachments[i].id.s = attachment_id}
    IN  IF hits = {} THEN 0 ELSE CHOOSE i \in hits : \A j \in hits : i <= j

\* next((item for item in attachments if str(item.get("id")) == attachment_id), None)
\* as the index of the item, 0 for None
FindAttachment(attachments, attachment_id) ==
    LET hits == {i \in 1..Len(attachments) : PyStr(attachments[i].id) = attachment_id}
    IN  IF hits = {} THEN 0 ELSE CHOOSE i \in hits : \A j \in hits : i <= j

\* mutant: 401 and 403 are not told apart from the other statuses of 400 or more
AttachmentOutcomeNoUnauthorized(status_code) ==
    IF status_code = 404 THEN JiraNotFoundError("Attachment not found")
    ELSE IF status_code >= 400 THEN JiraError("Failed to fetch attachment from Jira")
    ELSE StreamResult

\* the interpretation of the final status of the attachment request
AttachmentOutcome(status_code) ==
    IF status_code = 404 THEN JiraNotFoundError("Attachment not found")
    ELSE IF status_code \in {401, 403}
    THEN JiraUnauthorizedError("Unauthorized or permission denied for attachment", status_code)
    ELSE IF status_code >= 400 THEN JiraError("Failed to fetch attachment from Jira")
    ELSE StreamResult

\* mutant: the failure branches raise without response.close()
AfterAttachmentResponseNoClose(r, status_code) ==
    LET out == AttachmentOutcome(status_code)
    IN  IF out.kind = "stream"
        THEN [r EXCEPT !.pc = "streaming", !.gen = "created", !.result = out]
        ELSE Raise(r, out)

\* lines 146-177: a failure closes the response, a success hands it to iterator()
AfterAttachmentResponse(r, status_code) ==
    LET out == AttachmentOutcome(status_code)
    IN  IF out.kind = "stream"
        THEN [r EXCEPT !.pc = "streaming", !.gen = "created", !.result = out]
        ELSE Raise(Logged(r, CloseEvent(r.phase, r.attempt)), out)

\* lines 130-144, from the value of _get_issue_raw_cached on; the fetch
\* operation returns that value
GotIssue(r, issue_data, attempts) ==
    IF r.op = "fetch"
    THEN [r EXCEPT !.pc = "done", !.doc = issue_data, !.result = DocResult(issue_data)]
    ELSE LET i == FindAttachment(issue_data.attachment, r.att)
         IN  IF i = 0
             THEN Raise([r EXCEPT !.doc = issue_data],
                        JiraNotFoundError("Attachment not found for this issue"))
             ELSE IF issue_data.attachment[i].content = NoUrl
             THEN Raise([r EXCEPT !.doc = issue_data],
                        JiraNotFoundError("Attachment download URL is unavailable"))
             ELSE EnterRetry([r EXCEPT !.doc = issue_data], "attachment",
                             issue_data.attachment[i].content, attempts)

\* mutant: the generator has no finally
IteratorNoFinally(r) == r

\* finally: response.close() of iterator()
IteratorFinally(r) == Logged(r, CloseEvent(r.phase, r.attempt))

(***************************************************************************)
(* Issue fetcher: _fetch_issue_raw and _get_issue_raw_cached.              *)
(***************************************************************************)
\* mutant: 403 is not told apart from the other statuses of 400 or more
IssueOutcomeNo403(status_code, body) ==
    IF status_code = 404 THEN JiraNotFoundError("Invalid issue key")
    ELSE IF status_code = 401
    THEN JiraUnauthorizedError("Unauthorized or permission denied for Jira issue", status_code)
    ELSE IF status_code >= 400 THEN JiraError("Failed to fetch issue from Jira")
    ELSE IF ~body.ok THEN JiraError("Jira API returned invalid response")
    ELSE DocResult(body.doc)

\* the interpretation of the final status of the issue request
IssueOutcome(status_code, body) ==
    IF status_code = 404 THEN JiraNotFoundError("Invalid issue key")
    ELSE IF status_code \in {401, 403}
    THEN JiraUnauthorizedError("Unauthorized or permission denied for Jira issue", status_code)
    ELSE IF status_code >= 400 THEN JiraError("Failed to fetch issue from Jira")
    ELSE IF ~body.ok THEN JiraError("Jira API returned invalid response")
    ELSE DocResult(body.doc)

\* mutant: the cache is never read
IsHitNever(c, key, t, ttl) == FALSE

\* mutant: an entry of age ttl still counts
IsHitInclusive(c, key, t, ttl) == key \in DOMAIN c /\ (t - c[key].ts) <= ttl

\* cached and (time.monotonic() - cached[0]) < cache_ttl_seconds
IsHit(c, key, t, ttl) == key \in DOMAIN c /\ (t - c[key].ts) < ttl

\* mutant: an entry that exists is kept (setdefault)
CacheStoreKeepFirst(c, key, t, doc) ==
    [k \in DOMAIN c \cup {key} |-> IF k \in DOMAIN c THEN c[k] ELSE [ts |-> t, doc |-> doc]]

\* self._issue_cache[normalized_key] = (time.monotonic(), issue_data)
CacheStore(c, key, t, doc) ==
    [k \in DOMAIN c \cup {key} |-> IF k = key THEN [ts |-> t, doc |-> doc] ELSE c[k]]

\* mutant: the payload goes to the cache write whatever the switch says
AfterIssueResponseAlwaysCache(r, status_code, body, enabled, attempts) ==
    LET closed == Logged(r, CloseEvent(r.phase, r.attempt))
        out == IssueOutcome(status_code, body)
    IN  IF out.kind # "doc" THEN Raise(closed, out)
        ELSE [closed EXCEPT !.pc = "lock_write", !.doc = out.doc]

\* mutant: a body that is not JSON is stored too
AfterIssueResponseCachesUnparsed(r, status_code, body, enabled, attempts) ==
    LET closed == Logged(r, CloseEvent(r.phase, r.attempt))
        out == IssueOutcome(status_code, body)
    IN  IF status_code < 400 /\ enabled
        THEN [closed EXCEPT !.pc = "lock_write", !.doc = body.doc]
        ELSE IF out.kind # "doc" THEN Raise(closed, out)
        ELSE GotIssue(closed, out.doc, attempts)

\* lines 100-125 and 84-88: every branch closes the response; a payload
\* goes to the cache write when caching is enabled
AfterIssueResponse(r, status_code, body, enabled, attempts) ==
    LET closed == Logged(r, CloseEvent(r.phase, r.attempt))
        out == IssueOutcome(status_code, body)
    IN  IF out.kind # "doc" THEN Raise(closed, out)
        ELSE IF enabled THEN [closed EXCEPT !.pc = "lock_write", !.doc = out.doc]
        ELSE GotIssue(closed, out.doc, attempts)

\* lines 71-75 of _get_issue_raw_cached, entered by both operations
Enter(r, enabled, attempts) ==
    LET normalized_key == NormalizeKey(r.key)
        n == [r EXCEPT !.nkey = normalized_key]
    IN  IF normalized_key = <<>> THEN Raise(n, JiraNotFoundError("Invalid issue key"))
        ELSE IF enabled THEN [n EXCEPT !.pc = "lock_read"]
        ELSE EnterRetry(n, "issue", IssueUrl(normalized_key), attempts)

(***************************************************************************)
(* Normalization: the values of a parsed JSON document.  A mapping is      *)
(* given by what .get("text") and .get("content") return on it, None for   *)
(* a missing key; it may have other keys.                                  *)
(***************************************************************************)
VNone == [t |-> "none"]
VStr(s) == [t |-> "str", s |-> s]
VNum(n) == [t |-> "num", n |-> n]
VList(items) == [t |-> "list", items |-> items]
VDict(text, content) == [t |-> "dict", text |-> text, content |-> content]

\* the extraction raised: iteration over a value that is not iterable
TypeError == [t |-> "TypeError"]

\* the truth value of a Python value
Truthy(v) ==
    CASE v.t = "none" -> FALSE
      [] v.t = "str" -> v.s # <<>>
      [] v.t = "num" -> v.n # 0
      [] v.t = "list" -> v.items # <<>>
      [] OTHER -> TRUE

\* v or []
OrEmptyList(v) == IF Truthy(v) THEN v ELSE VList(<<>>)

\* what walk has collected, or the exception it raised
Fragments(frags) == [err |-> FALSE, frags |-> frags]
WalkRaised == [err |-> TRUE, frags |-> <<>>]

\* one call of walk after another
WalkThen(a, b) == IF a.err \/ b.err THEN WalkRaised ELSE Fragments(a.frags \o b.frags)

\* for child in c: the items of a list, the characters of a string, the
\* keys of a mapping (strings)
Iterate(c) ==
    CASE c.t = "list" -> c.items
      [] c.t = "str" -> [i \in 1..Len(c.s) |-> VStr(<<c.s[i]>>)]
      [] OTHER -> << VStr(<<"text">>), VStr(<<"content">>) >>

RECURSIVE walk(_)
RECURSIVE WalkEach(_)
\* for item in items: walk(item)
WalkEach(items) ==
    IF items = <<>> THEN Fragments(<<>>)
    ELSE WalkThen(walk(Head(items)), WalkEach(Tail(items)))

\* lines 304-313
walk(node) ==
    IF node.t = "dict"
    THEN LET own == IF node.text.t = "str" THEN <<node.text.s>> ELSE <<>>
             c == OrEmptyList(node.content)
         IN  IF c.t = "num" THEN WalkRaised
             ELSE WalkThen(Fragments(own), WalkEach(Iterate(c)))
    ELSE IF node.t = "list" THEN WalkEach(node.items)
    ELSE Fragments(<<>>)

RECURSIVE JoinWith(_, _)
\* sep.join(parts)
JoinWith(parts, sep) ==
    IF parts = <<>> THEN <<>>
    ELSE IF Len(parts) = 1 THEN parts[1]
    ELSE parts[1] \o sep \o JoinWith(Tail(parts), sep)

\* part.strip() for part in fragments if part and part.strip()
StrippedParts(fragments) ==
    LET kept == SelectSeq(fragments, LAMBDA part : part # <<>> /\ Strip(part) # <<>>)
    IN  [i \in 1..Len(kept) |-> Strip(kept[i])]

\* _extract_adf_text
_extract_adf_text(value) ==
    IF value.t = "str" THEN value
    ELSE IF value.t # "dict" THEN VNone
    ELSE LET walked == walk(OrEmptyList(value.content))
             extracted == Strip(JoinWith(StrippedParts(walked.frags), <<" ">>))
         IN  IF walked.err THEN TypeError
             ELSE IF extracted = <<>> THEN VNone
             ELSE VStr(extracted)

\* _extract_description: the rendered description when it is a string that
\* is not blank, else the text of the raw one
_extract_description(rendered, description) ==
    IF rendered.t = "str" /\ Strip(rendered.s) # <<>> THEN rendered
    ELSE _extract_adf_text(description)

(***************************************************************************)
(* Normalization: attachment descriptors (_extract_attachments).           *)
(***************************************************************************)
\* a raw attachment entry, by what .get("id") and .get("filename") return
RawAttachment(id, filename) == [id |-> id, filename |-> filename]

\* no download path (None)
NoPath == <<>>

\* f"/jira/{issue_key}/attachments/{attachment_id}"
ProxyPath(issue_key, id_text) == <<"/jira/", issue_key, "/attachments/", id_text>>

\* if attachment_id: the truth value of the raw id
IdTruthy(id) ==
    CASE id.t = "str" -> id.s # <<>>
      [] id.t = "int" -> id.n # 0
      [] OTHER -> FALSE

\* mutant: the path is built whatever the id is
ProxyUrlAlways(issue_key, id) == ProxyPath(issue_key, PyStr(id))

\* lines 282-285
ProxyUrl(issue_key, id) ==
    IF IdTruthy(id) THEN ProxyPath(issue_key, PyStr(id)) ELSE NoPath

JiraAttachment(filename, download_url) == [filename |-> filename, download_url |-> download_url]

\* _extract_attachments over fields.get("attachment") or []
_extract_attachments(raw_attachments, issue_key) ==
    [i \in 1..Len(raw_attachments) |->
        JiraAttachment(raw_attachments[i].filename, ProxyUrl(issue_key, raw_attachments[i].id))]

(***************************************************************************)
(* Normalization: comments (_extract_comments).                            *)
(***************************************************************************)
\* a raw comment, by what .get("body") and .get("created") return
RawComment(body, created) == [body |-> body, created |-> created]

\* an entry of the rendered comments, by what .get("body") returns
RenderedComment(body) == [body |-> body]

JiraComment(body, created) == [body |-> body, created |-> created]

\* mutant: the rendered body is taken from the first rendered comment
CommentBodyFirstRendered(comment, rendered_comments, idx) ==
    LET rendered_body == IF 1 <= Len(rendered_comments) THEN rendered_comments[1].body
                         ELSE VNone
    IN  IF Truthy(rendered_body) THEN rendered_body ELSE _extract_adf_text(comment.body)

\* lines 262-269: rendered_body or self._extract_adf_text(comment.get("body")),
\* idx counting from 1
CommentBody(comment, rendered_comments, idx) ==
    LET rendered_body == IF idx <= Len(rendered_comments) THEN rendered_comments[idx].body
                         ELSE VNone
    IN  IF Truthy(rendered_body) THEN rendered_body ELSE _extract_adf_text(comment.body)

\* _extract_comments; an extraction that raises ends the whole call
_extract_comments(raw_comments, rendered_comments) ==
    LET bodies == [i \in 1..Len(raw_comments) |->
                     CommentBody(raw_comments[i], rendered_comments, i)]
    IN  IF \E i \in 1..Len(bodies) : bodies[i] = TypeError THEN <<TypeError>>
        ELSE [i \in 1..Len(raw_comments) |-> JiraComment(bodies[i], raw_comments[i].created)]

(***************************************************************************)
(* One call of a normalization function.                                   *)
(***************************************************************************)
Call(fn, arg, done, value) == [fn |-> fn, arg |-> arg, done |-> done, value |-> value]

NoCall == Call("none", VNone, FALSE, VNone)

\* the texts of the nodes of the document trees
NodeTexts == {VNone, VStr(<<"a">>), VStr(<<" ", "b", " ">>), VStr(<<" ">>), VStr(<<>>), VNum(1)}

\* nodes without children
Leaves == {VDict(t, VNone) : t \in NodeTexts}

\* nodes over leaves, and nodes whose content is not a list
InnerNodes ==
    {VDict(t, VList(l)) : t \in {VNone, VStr(<<"c">>)},
                          l \in {<<>>} \cup {<<x>> : x \in Leaves}
                                \cup {<<x, y>> : x \in Leaves, y \in Leaves}}
    \cup {VDict(VNone, VNum(5)), VDict(VStr(<<"c">>), VStr(<<"x">>)),
          VDict(VNone, VDict(VStr(<<"a">>), VNone))}

Nodes == Leaves \cup InnerNodes

\* what the extractor is called with: document trees, with and without a
\* text of the root, roots whose content is not a list, and values that
\* are not mappings
AdfValues ==
    {VDict(t, VList(l)) : t \in {VNone, VStr(<<"r">>)},
                          l \in {<<>>} \cup {<<x>> : x \in Nodes}
                                \cup {<<x, y>> : x \in Nodes, y \in Nodes}}
    \cup {VDict(t, c) : t \in {VNone, VStr(<<"r">>)},
                        c \in {VNone, VNum(5), VStr(<<"x">>), VDict(VStr(<<"a">>), VNone)}}
    \cup {VStr(<<>>), VStr(<<" ">>), VStr(<<"a">>), VStr(<<" ", "a", " ">>)}
    \cup {VNone, VNum(5), VList(<<VDict(VStr(<<"a">>), VNone)>>)}

\* the arguments of _extract_description
DescriptionArgs ==
    {[rendered |-> r, description |-> v] :
        r \in {VNone, VStr(<<>>), VStr(<<" ">>), VStr(<<"h">>), VNum(1)},
        v \in {VNone, VStr(<<" ">>), VStr(<<"a">>), VDict(VNone, VNone),
               VDict(VNone, VList(<<VDict(VStr(<<"a">>), VNone)>>))}}

\* the raw comments: a body that is missing, a string, a tree with a text,
\* a tree without
RawComments ==
    {RawComment(b, c) :
        b \in {VNone, VStr(<<"a">>), VDict(VNone, VList(<<VDict(VStr(<<"b">>), VNone)>>)),
               VDict(VNone, VNone)},
        c \in {"t1", "t2"}}

\* the rendered comments: a body that is missing, empty, blank, a text
RenderedComments ==
    {RenderedComment(b) : b \in {VNone, VStr(<<>>), VStr(<<" ">>), VStr(<<"h">>)}}

\* the arguments of _extract_comments: the rendered list shorter than the
\* raw one, as long, longer
CommentArgs ==
    {[raw_comments |-> l, rendered_comments |-> r] :
        l \in {<<>>} \cup {<<x>> : x \in RawComments}
              \cup {<<x, y>> : x \in RawComments, y \in RawComments},
        r \in {<<>>} \cup {<<x>> : x \in RenderedComments}
              \cup {<<x, y>> : x \in RenderedComments, y \in RenderedComments}}

\* the raw attachment entries: ids as strings, as numbers, empty, missing
RawAttachments ==
    {RawAttachment(id, f) : id \in {StrId(<<"1", "0", "0", "0", "1">>), IntId(10001), StrId(<<>>), NoId},
                            f \in {"f1", "f2"}}

\* the arguments of _extract_attachments
AttachmentArgs ==
    {[raw_attachments |-> l, issue_key |-> k] :
        l \in {<<>>} \cup {<<x>> : x \in RawAttachments}
              \cup {<<x, y>> : x \in RawAttachments, y \in RawAttachments},
        k \in {"ABC-123", ""}}

(***************************************************************************)
(* Route layer (src/main.py): the patterns of the path and body            *)
(* parameters, checked by the framework before the handler is called,      *)
(* and the handlers' translation of the core's outcome.                    *)
(***************************************************************************)
UpperLetters ==
    {"A", "B", "C", "D", "E", "F", "G", "H", "I", "J", "K", "L", "M",
     "N", "O", "P", "Q", "R", "S", "T", "U", "V", "W", "X", "Y", "Z"}

Digits == {"0", "1", "2", "3", "4", "5", "6", "7", "8", "9"}

\* mutant: the pattern is not anchored at the end
MatchesIssueKeyUnanchored(s) ==
    \E d \in 3..Len(s) - 1, e \in 1..Len(s) :
        /\ d < e
        /\ s[d] = "-"
        /\ s[1] \in UpperLetters
        /\ \A i \in 2..d - 1 : s[i] \in UpperLetters \cup Digits
        /\ \A i \in d + 1..e : s[i] \in Digits

\* ISSUE_KEY_PATTERN = r"^[A-Z][A-Z0-9]+-\d+$": d is the place of the dash
MatchesIssueKey(s) ==
    \E d \in 3..Len(s) - 1 :
        /\ s[d] = "-"
        /\ s[1] \in UpperLetters
        /\ \A i \in 2..d - 1 : s[i] \in UpperLetters \cup Digits
        /\ \A i \in d + 1..Len(s) : s[i] \in Digits

\* ATTACHMENT_ID_PATTERN = r"^\d+$"
MatchesAttachmentId(s) == Len(s) >= 1 /\ \A i \in 1..Len(s) : s[i] \in Digits

\* the parameters of a request pass the patterns of its route
ValidRequest(endpoint, issue_key, attachment_id) ==
    /\ MatchesIssueKey(issue_key)
    /\ endpoint = "attachment" => MatchesAttachmentId(attachment_id)

\* mutant: the handler of JiraError comes first and takes every failure
HttpStatusJiraErrorFirst(result) ==
    IF result.kind \in Failures THEN 502 ELSE 200

\* the except clauses of _fetch_issue and proxy_jira_attachment, in order
HttpStatus(result) ==
    CASE result.kind = "NotFound" -> 404
      [] result.kind = "Unauthorized" -> result.status
      [] result.kind = "Timeout" -> 504
      [] result.kind = "NetworkUnreachable" -> 503
      [] result.kind = "UpstreamError" -> 502
      [] OTHER -> 200

\* the except clauses of jira_tool_get_issue, in order
ToolCode(result) ==
    CASE result.kind = "NotFound" -> "NOT_FOUND"
      [] result.kind = "Unauthorized" -> "UNAUTHORIZED"
      [] result.kind = "Timeout" -> "TIMEOUT"
      [] result.kind = "NetworkUnreachable" -> "NETWORK_ERROR"
      [] OTHER -> "JIRA_ERROR"

\* what the handler of the endpoint answers for the outcome of the core
RouteReply(endpoint, result) ==
    IF endpoint = "tool"
    THEN IF result.kind \in Failures THEN Reply(200, FALSE, ToolCode(result), NoDoc)
         ELSE Reply(200, TRUE, "", result.doc)
    ELSE Reply(HttpStatus(result), result.kind \notin Failures, "", result.doc)

\* the issue keys and attachment ids of the requests to the routes
RouteKeys ==
    { <<"A", "B", "-", "1">>, <<"A", "1", "-", "1", "2">>,
      <<"a", "A", "-", "1">>, <<"A", "-", "1">>, <<"A", "B", "-">>, <<"A", "B", "1">>,
      <<"1", "B", "-", "1">>, <<" ", "A", "B", "-", "1">>, <<"A", "B", "-", "1", "a">>,
      <<"A", "B", "-", "1", " ">>, <<"-", "1">>, <<"A", "B", "-", "-", "1">> }

RouteAttachmentIds == {<<"7">>, <<"8">>, <<"9">>, <<"7", "x">>, <<"N", "o", "n", "e">>, <<"-", "7">>}

Endpoints == {"issue", "attachment", "tool"}

(***************************************************************************)
(* What one requests.get can do: answer with a status (and, for a status   *)
(* below 400 of the issue request, a body), time out, or fail otherwise.   *)
(***************************************************************************)
Outcome(kind, status, body) == [kind |-> kind, status |-> status, body |-> body]

Bodies == {Body(TRUE, d) : d \in Docs} \cup {NoBody}

Outcomes(phase, statuses) ==
    {Outcome("status", s, NoBody) : s \in statuses}
    \cup (IF phase = "issue"
          THEN {Outcome("status", s, b) : s \in {t \in statuses : t < 400}, b \in Bodies}
          ELSE {})
    \cup {Outcome("timeout", 0, NoBody), Outcome("error", 0, NoBody)}

\* every status of the model, with the boundaries of the classes
AllStatuses == {200, 399, 400, 401, 403, 404, 499, 500, 502}

\* one status of each class the cache and the streamer tell apart
CoreStatuses == {200, 404, 502}

\* one status of each class the two interpretations of a final status tell apart
StreamStatuses == {200, 400, 401, 403, 404, 502}

(***************************************************************************)
(* Initial state: the service after __init__, for a set of configurations. *)
(***************************************************************************)
InitWith(configs) ==
    /\ settings \in configs
    /\ cache = <<>>
    /\ lock = NoWorker
    /\ now = 0
    /\ wk = [w \in Workers |-> IdleWorker]
    /\ norm = NoCall

(***************************************************************************)
(* Actions.                                                                *)
(***************************************************************************)
\* get_issue(issue_key): a worker thread enters _get_issue_raw_cached
StartFetch(w, k) ==
    /\ wk[w].pc = "idle"
    /\ wk' = [wk EXCEPT ![w] = Enter([IdleWorker EXCEPT !.op = "fetch", !.key = k],
                                     settings.enable_response_cache,
                                     settings.retry_max_attempts)]
    /\ UNCHANGED <<settings, cache, lock, now, norm>>

\* get_attachment_stream(issue_key, attachment_id)
StartStream(w, k, a) ==
    /\ wk[w].pc = "idle"
    /\ wk' = [wk EXCEPT ![w] = Enter([IdleWorker EXCEPT !.op = "stream", !.key = k, !.att = a],
                                     settings.enable_response_cache,
                                     settings.retry_max_attempts)]
    /\ UNCHANGED <<settings, cache, lock, now, norm>>

\* with self._cache_lock: the worker gets the lock
AcquireLock(w) ==
    /\ wk[w].pc \in {"lock_read", "lock_write"}
    /\ lock = NoWorker
    /\ lock' = w
    /\ wk' = [wk EXCEPT ![w].pc = IF @ = "lock_read" THEN "in_read" ELSE "in_write"]
    /\ UNCHANGED <<settings, cache, now, norm>>

\* mutant: the with block reaches over the fetch, so a miss keeps the lock
CacheGetKeepingLock(w) ==
    /\ wk[w].pc = "in_read"
    /\ lock = w
    /\ LET r == wk[w]
           hit == IsHit(cache, r.nkey, now, settings.cache_ttl_seconds)
       IN  /\ wk' = [wk EXCEPT ![w] =
                      IF hit
                      THEN GotIssue(Logged(r, GetEvent("hit")), cache[r.nkey].doc,
                                    settings.retry_max_attempts)
                      ELSE EnterRetry(Logged(r, GetEvent("miss")), "issue", IssueUrl(r.nkey),
                                      settings.retry_max_attempts)]
           /\ lock' = IF hit THEN NoWorker ELSE w
    /\ UNCHANGED <<settings, cache, now, norm>>

\* mutant: a hit stores the entry again with the time of the hit
CacheGetRefreshing(w) ==
    /\ wk[w].pc = "in_read"
    /\ lock = w
    /\ LET r == wk[w]
           hit == IsHit(cache, r.nkey, now, settings.cache_ttl_seconds)
       IN  /\ wk' = [wk EXCEPT ![w] =
                      IF hit
                      THEN GotIssue(Logged(r, GetEvent("hit")), cache[r.nkey].doc,
                                    settings.retry_max_attempts)
                      ELSE EnterRetry(Logged(r, GetEvent("miss")), "issue", IssueUrl(r.nkey),
                                      settings.retry_max_attempts)]
           /\ cache' = IF hit THEN CacheStore(cache, r.nkey, now, cache[r.nkey].doc) ELSE cache
    /\ lock' = NoWorker
    /\ UNCHANGED <<settings, now, norm>>

\* lines 77-80 under the lock, then line 82 on a miss
CacheGet(w) ==
    /\ wk[w].pc = "in_read"
    /\ lock = w
    /\ LET r == wk[w]
           hit == IsHit(cache, r.nkey, now, settings.cache_ttl_seconds)
       IN  wk' = [wk EXCEPT ![w] =
                    IF hit
                    THEN GotIssue(Logged(r, GetEvent("hit")), cache[r.nkey].doc,
                                  settings.retry_max_attempts)
                    ELSE EnterRetry(Logged(r, GetEvent("miss")), "issue", IssueUrl(r.nkey),
                                    settings.retry_max_attempts)]
    /\ lock' = NoWorker
    /\ UNCHANGED <<settings, cache, now, norm>>

\* lines 86-88 under the lock
CachePut(w) ==
    /\ wk[w].pc = "in_write"
    /\ lock = w
    /\ cache' = CacheStore(cache, wk[w].nkey, now, wk[w].doc)
    /\ wk' = [wk EXCEPT ![w] = GotIssue(Logged(wk[w], PutEvent), wk[w].doc,
                                        settings.retry_max_attempts)]
    /\ lock' = NoWorker
    /\ UNCHANGED <<settings, now, norm>>

\* one pass of the loop of _request_with_retry, and on a returned response
\* the caller's interpretation of it
Request(w, o) ==
    /\ wk[w].pc = "request"
    /\ LET r == Logged(wk[w], ReqEvent(wk[w].phase, wk[w].attempt, o.kind, o.status))
           returned == [r EXCEPT !.response = Response(r.phase, r.attempt, o.status, o.body)]
       IN  wk' = [wk EXCEPT ![w] =
                    IF o.kind # "status" THEN Raise(r, TransportFailure(o.kind))
                    ELSE IF ShouldReturn(o.status, r.attempt, settings.retry_max_attempts)
                    THEN IF r.phase = "issue"
                         THEN AfterIssueResponse(returned, o.status, o.body,
                                                 settings.enable_response_cache,
                                                 settings.retry_max_attempts)
                         ELSE AfterAttachmentResponse(returned, o.status)
                    ELSE CloseAndSleep(r, settings.retry_backoff_seconds)]
    /\ UNCHANGED <<settings, cache, lock, now, norm>>

\* time.sleep(backoff) returns
WakeUp(w) ==
    /\ wk[w].pc = "sleep"
    /\ wk' = [wk EXCEPT ![w] = NextAttempt(wk[w], settings.retry_max_attempts)]
    /\ UNCHANGED <<settings, cache, lock, now, norm>>

\* the consumer pulls on the generator: iter_content gives a chunk, ends,
\* or raises (an empty chunk is skipped by the loop and changes nothing)
NextChunk(w, out) ==
    /\ wk[w].pc = "streaming"
    /\ wk[w].gen \in {"created", "suspended"}
    /\ out = "chunk" => wk[w].chunks < MaxChunks
    /\ wk' = [wk EXCEPT ![w] =
                CASE out = "chunk" -> [@ EXCEPT !.gen = "suspended", !.chunks = @ + 1]
                  [] out = "end" -> [IteratorFinally(@) EXCEPT !.gen = "closed", !.ended = TRUE]
                  [] OTHER -> [IteratorFinally(@) EXCEPT !.gen = "closed", !.raised = TRUE]]
    /\ UNCHANGED <<settings, cache, lock, now, norm>>

\* the consumer calls close() on the generator: GeneratorExit is raised at
\* the yield of a suspended generator; a generator that never ran, or is
\* over, runs nothing
CloseGen(w) ==
    /\ wk[w].pc = "streaming"
    /\ ~wk[w].genClosed
    /\ wk' = [wk EXCEPT ![w] =
                [(IF @.gen = "suspended" THEN IteratorFinally(@) ELSE @)
                 EXCEPT !.gen = "closed", !.genClosed = TRUE]]
    /\ UNCHANGED <<settings, cache, lock, now, norm>>

\* the consumer lets go of the stream
Drop(w) ==
    /\ wk[w].pc = "streaming"
    /\ wk' = [wk EXCEPT ![w].pc = "done"]
    /\ UNCHANGED <<settings, cache, lock, now, norm>>

\* the operation is over; the worker takes the next one
Return(w) ==
    /\ wk[w].pc = "done"
    /\ wk[w].route # "none" => wk[w].reply # NoReply
    /\ wk' = [wk EXCEPT ![w] = IdleWorker]
    /\ UNCHANGED <<settings, cache, lock, now, norm>>

\* the monotonic clock advances
Tick ==
    /\ now < MaxTime
    /\ now' = now + 1
    /\ UNCHANGED <<settings, cache, lock, wk, norm>>

\* a request arrives at GET /jira/{issue_key}, at the attachment route or
\* at the tool endpoint: the framework checks the patterns and either
\* answers 422 or calls the handler, which calls the core
Route(w, endpoint, issue_key, attachment_id) ==
    /\ wk[w].pc = "idle"
    /\ LET req == [IdleWorker EXCEPT !.route = endpoint, !.key = issue_key,
                                     !.att = attachment_id]
       IN  wk' = [wk EXCEPT ![w] =
                    IF ~ValidRequest(endpoint, issue_key, attachment_id)
                    THEN [req EXCEPT !.pc = "done", !.reply = Unprocessable]
                    ELSE Enter([req EXCEPT !.op = IF endpoint = "attachment" THEN "stream"
                                                  ELSE "fetch"],
                               settings.enable_response_cache,
                               settings.retry_max_attempts)]
    /\ UNCHANGED <<settings, cache, lock, now, norm>>

\* the core has returned or raised: the handler answers
Respond(w) ==
    /\ wk[w].route # "none"
    /\ wk[w].reply = NoReply
    /\ wk[w].pc \in {"done", "streaming"}
    /\ wk' = [wk EXCEPT ![w].reply = RouteReply(wk[w].route, wk[w].result)]
    /\ UNCHANGED <<settings, cache, lock, now, norm>>

\* _extract_adf_text(value) runs
ExtractAdfText ==
    /\ norm.fn = "_extract_adf_text"
    /\ ~norm.done
    /\ norm' = [norm EXCEPT !.done = TRUE, !.value = _extract_adf_text(norm.arg)]
    /\ UNCHANGED <<settings, cache, lock, now, wk>>

\* _extract_description(fields, rendered_fields) runs
ExtractDescription ==
    /\ norm.fn = "_extract_description"
    /\ ~norm.done
    /\ norm' = [norm EXCEPT !.done = TRUE,
                            !.value = _extract_description(norm.arg.rendered,
                                                           norm.arg.description)]
    /\ UNCHANGED <<settings, cache, lock, now, wk>>

\* _extract_attachments(fields, issue_key) runs
ExtractAttachments ==
    /\ norm.fn = "_extract_attachments"
    /\ ~norm.done
    /\ norm' = [norm EXCEPT !.done = TRUE,
                            !.value = _extract_attachments(norm.arg.raw_attachments,
                                                           norm.arg.issue_key)]
    /\ UNCHANGED <<settings, cache, lock, now, wk>>

\* _extract_comments(fields, rendered_fields) runs
ExtractComments ==
    /\ norm.fn = "_extract_comments"
    /\ ~norm.done
    /\ norm' = [norm EXCEPT !.done = TRUE,
                            !.value = _extract_comments(norm.arg.raw_comments,
                                                        norm.arg.rendered_comments)]
    /\ UNCHANGED <<settings, cache, lock, now, wk>>

(***************************************************************************)
(* Specifications.                                                         *)
(***************************************************************************)
\* The issue fetcher over the cache, one request at a time, while the
\* clock advances: every key, caching on or off.
Init ==
    InitWith({Settings(m, DefaultBackoffMs, e, CacheTtl) :
                m \in MinRetryAttempts..AttemptsBound, e \in BOOLEAN})

Next ==
    \/ \E k \in RawKeys : StartFetch("w1", k)
    \/ AcquireLock("w1")
    \/ CacheGet("w1")
    \/ CachePut("w1")
    \/ \E o \in Outcomes(wk["w1"].phase, CoreStatuses) : Request("w1", o)
    \/ WakeUp("w1")
    \/ Return("w1")
    \/ Tick

Spec == Init /\ [][Next]_vars

\* Both operations and the consumer of the stream, caching on or off, the
\* clock standing still.
NextStream ==
    \/ \E k \in RawKeys : StartFetch("w1", k)
    \/ \E k \in RawKeys, a \in AttachmentIds : StartStream("w1", k, a)
    \/ AcquireLock("w1")
    \/ CacheGet("w1")
    \/ CachePut("w1")
    \/ \E o \in Outcomes(wk["w1"].phase, StreamStatuses) : Request("w1", o)
    \/ WakeUp("w1")
    \/ \E out \in {"chunk", "end", "raise"} : NextChunk("w1", out)
    \/ CloseGen("w1")
    \/ Drop("w1")
    \/ Return("w1")

SpecStream == Init /\ [][NextStream]_vars

\* Two worker threads run fetchIssue concurrently over the shared cache,
\* caching on: their steps interleave in every order; the keys differ by
\* case and by an inner space.
ConcKeys == { <<"a">>, <<"A">>, <<"a", " ", "A">> }

InitConc ==
    InitWith({Settings(m, DefaultBackoffMs, TRUE, CacheTtl) :
                m \in MinRetryAttempts..AttemptsBound})

NextConc ==
    \E w \in Workers :
        \/ \E k \in ConcKeys : StartFetch(w, k)
        \/ AcquireLock(w)
        \/ CacheGet(w)
        \/ CachePut(w)
        \/ \E o \in Outcomes(wk[w].phase, CoreStatuses) : Request(w, o)
        \/ WakeUp(w)
        \/ Return(w)

SpecConc == InitConc /\ [][NextConc]_vars

\* Both operations on one issue over the cache while the clock advances,
\* caching on: entries go stale and are fetched again.
FrameAttachmentIds == {<<"7">>, <<"9">>}

NextFrame ==
    \/ StartFetch("w1", <<"a">>)
    \/ \E a \in FrameAttachmentIds : StartStream("w1", <<"a">>, a)
    \/ AcquireLock("w1")
    \/ CacheGet("w1")
    \/ CachePut("w1")
    \/ \E o \in Outcomes(wk["w1"].phase, CoreStatuses) : Request("w1", o)
    \/ WakeUp("w1")
    \/ Drop("w1")
    \/ Return("w1")
    \/ Tick

SpecFrame == InitConc /\ [][NextFrame]_vars

\* The three routes over the core, caching on or off.
NextRoute ==
    \/ \E k \in RouteKeys : Route("w1", "issue", k, <<>>)
    \/ \E k \in RouteKeys, a \in RouteAttachmentIds : Route("w1", "attachment", k, a)
    \/ \E k \in RouteKeys : Route("w1", "tool", k, <<>>)
    \/ AcquireLock("w1")
    \/ CacheGet("w1")
    \/ CachePut("w1")
    \/ \E o \in Outcomes(wk["w1"].phase, StreamStatuses) : Request("w1", o)
    \/ WakeUp("w1")
    \/ Respond("w1")
    \/ Drop("w1")
    \/ Return("w1")

SpecRoute == Init /\ [][NextRoute]_vars

\* The normalization functions, each called once with one of its arguments.
InitNormalize ==
    /\ settings = Settings(MinRetryAttempts, DefaultBackoffMs, FALSE, CacheTtl)
    /\ cache = <<>>
    /\ lock = NoWorker
    /\ now = 0
    /\ wk = [w \in Workers |-> IdleWorker]
    /\ norm \in {Call("_extract_adf_text", v, FALSE, VNone) : v \in AdfValues}
               \cup {Call("_extract_description", a, FALSE, VNone) : a \in DescriptionArgs}
               \cup {Call("_extract_attachments", a, FALSE, VNone) : a \in AttachmentArgs}
               \cup {Call("_extract_comments", a, FALSE, VNone) : a \in CommentArgs}

NextNormalize ==
    \/ ExtractAdfText
    \/ ExtractDescription
    \/ ExtractAttachments
    \/ ExtractComments

SpecNormalize == InitNormalize /\ [][NextNormalize]_vars

\* The retry executor alone: every valid retry_max_attempts, every status
\* class with its boundaries, caching off.
InitRetry ==
    InitWith({Settings(m, b, FALSE, CacheTtl) :
                m \in MinRetryAttempts..MaxRetryAttempts, b \in BackoffBases})

NextRetry ==
    \/ StartFetch("w1", <<"a">>)
    \/ \E o \in Outcomes(wk["w1"].phase, AllStatuses) : Request("w1", o)
    \/ WakeUp("w1")
    \/ Return("w1")

SpecRetry == InitRetry /\ [][NextRetry]_vars

\* The retry executor with an upstream of which every single request returns
\* or fails (requests.get is called with timeout=request_timeout) and a
\* time.sleep that returns: a pending request and a pending sleep each end.
SpecRetryFair ==
    /\ SpecRetry
    /\ WF_vars(\E o \in Outcomes(wk["w1"].phase, AllStatuses) : Request("w1", o))
    /\ WF_vars(WakeUp("w1"))

(***************************************************************************)
(* Properties of the retry executor (SpecRetry).                           *)
(***************************************************************************)
Phases == {"issue", "attachment"}

IsStatus(e) == e.kind = "status"

Is5xx(e) == e.kind = "status" /\ e.status >= 500

\* the statuses of the requests of a phase, in order
RECURSIVE StatusesOf(_)
StatusesOf(reqs) ==
    IF reqs = <<>> THEN <<>> ELSE <<Head(reqs).status>> \o StatusesOf(Tail(reqs))

\* C1: for every sequence of upstream responses and every max_attempts m in
\* 1..8, the attempts of one call of the retry executor are numbered 1, 2, ...
\* up to m at most; attempt n+1 is issued only if attempt n answered with a
\* 5xx status and n < m; and an attempt that answers with a status below 500
\* is the last one, its response being the one the executor returns.
C1_RetryOnly5xx ==
    \A w \in Workers, p \in Phases :
        LET reqs == Requests(wk[w].log, p)
            m == settings.retry_max_attempts
        IN  /\ \A i \in 1..Len(reqs) : reqs[i].n = i
            /\ \A i \in 1..(Len(reqs) - 1) : Is5xx(reqs[i]) /\ i < m
            /\ \A i \in 1..Len(reqs) :
                 (IsStatus(reqs[i]) /\ reqs[i].status < 500 /\ wk[w].phase = p)
                 => /\ i = Len(reqs)
                    /\ wk[w].response.phase = p
                    /\ wk[w].response.n = i
                    /\ wk[w].response.status = reqs[i].status
                    /\ wk[w].pc \notin {"request", "sleep"}

\* statuses [502, 502, 200] with max_attempts 3: three requests, and the 200
\* response is returned
C1_Witness ==
    /\ settings.retry_max_attempts = 3
    /\ StatusesOf(Requests(wk["w1"].log, "issue")) = <<502, 502, 200>>
    /\ wk["w1"].response.status = 200
    /\ wk["w1"].response.n = 3

\* C2: when every attempt answers with a 5xx status, the executor issues
\* exactly max_attempts requests and never one more, returns the last 5xx
\* response to its caller instead of raising, and does not sleep after it.
C2_ExhaustedReturnsLast5xx ==
    \A w \in Workers, p \in Phases :
        LET reqs == Requests(wk[w].log, p)
            m == settings.retry_max_attempts
        IN  /\ Len(reqs) <= m
            /\ (wk[w].response.phase = p /\ \A i \in 1..Len(reqs) : Is5xx(reqs[i]))
               => Len(reqs) = m
            /\ (Len(reqs) = m /\ wk[w].phase = p /\ \A i \in 1..m : Is5xx(reqs[i]))
               => /\ wk[w].response = Response(p, m, reqs[m].status, NoBody)
                  /\ Len(Sleeps(wk[w].log, p)) = m - 1
                  /\ wk[w].pc \notin {"request", "sleep"}
                  /\ wk[w].result.kind \notin {"Timeout", "NetworkUnreachable"}
                  /\ wk[w].result.msg # "Unexpected Jira retry state"

\* statuses [502, 502, 502] with max_attempts 3: the third 502 is returned
C2_Witness ==
    /\ settings.retry_max_attempts = 3
    /\ StatusesOf(Requests(wk["w1"].log, "issue")) = <<502, 502, 502>>
    /\ wk["w1"].response = Response("issue", 3, 502, NoBody)
    /\ Len(Sleeps(wk["w1"].log, "issue")) = 2
    /\ wk["w1"].pc = "done"

\* C8: a transport failure on any attempt ends the executor on that attempt:
\* no request and no sleep follows it, a timeout is reported as Timeout and
\* every other transport failure as NetworkUnreachable.
C8_TransportFailureEnds ==
    \A w \in Workers, p \in Phases :
        LET reqs == Requests(wk[w].log, p)
        IN  \A i \in 1..Len(reqs) :
              ~IsStatus(reqs[i])
              => /\ i = Len(reqs)
                 /\ wk[w].log[Len(wk[w].log)] = reqs[i]
                 /\ Len(Sleeps(wk[w].log, p)) = i - 1
                 /\ wk[w].pc = "done"
                 /\ wk[w].response.phase # p
                 /\ wk[w].result.kind =
                      (IF reqs[i].kind = "timeout" THEN "Timeout" ELSE "NetworkUnreachable")

\* a timeout on the second attempt, after one retried 5xx
C8_Witness ==
    LET reqs == Requests(wk["w1"].log, "issue")
    IN  /\ Len(reqs) = 2
        /\ Is5xx(reqs[1])
        /\ reqs[2].kind = "timeout"
        /\ wk["w1"].result.kind = "Timeout"

\* C9: the final response the executor returns to the issue fetcher is
\* interpreted by its status: 404 is NotFound, 401 and 403 are Unauthorized
\* with that status, every other status of 400 or more (a 5xx left after the
\* retries included) is UpstreamError, a status below 400 with a body that
\* does not parse is UpstreamError, and only a status below 400 with a
\* parseable body gives a document, the one of the body.
C9_IssueStatusInterpretation ==
    \A w \in Workers :
        (wk[w].op = "fetch" /\ wk[w].response.phase = "issue")
        => LET s == wk[w].response.status
               b == wk[w].response.body
               failed == wk[w].pc = "done" /\ wk[w].result.kind \in Failures
               document ==
                   \/ wk[w].pc \in {"lock_write", "in_write"} /\ wk[w].doc = b.doc
                   \/ wk[w].pc = "done" /\ wk[w].result = DocResult(b.doc)
           IN  /\ failed \/ document
               /\ s = 404 => failed /\ wk[w].result.kind = "NotFound"
               /\ s \in {401, 403}
                  => failed /\ wk[w].result.kind = "Unauthorized" /\ wk[w].result.status = s
               /\ (s >= 400 /\ s \notin {401, 403, 404})
                  => failed /\ wk[w].result.kind = "UpstreamError"
               /\ (s < 400 /\ ~b.ok) => failed /\ wk[w].result.kind = "UpstreamError"
               /\ document <=> (s < 400 /\ b.ok)

\* a 5xx on the last attempt reaches the fetcher and becomes UpstreamError
C9_Witness ==
    /\ wk["w1"].op = "fetch"
    /\ wk["w1"].pc = "done"
    /\ wk["w1"].response.status = 500
    /\ wk["w1"].response.n = settings.retry_max_attempts
    /\ wk["w1"].result.kind = "UpstreamError"

\* the index in the log of the k-th event that satisfies Test
NthIndex(log, Test(_), k) ==
    CHOOSE i \in 1..Len(log) :
        /\ Test(log[i])
        /\ Cardinality({j \in 1..i : Test(log[j])}) = k

\* C10: the k-th sleep of one call of the executor follows attempt k, which
\* answered 5xx with k < max_attempts, and lasts retry_backoff_seconds *
\* 2^(k-1): 0.5 s and 1.0 s before attempts 2 and 3 for a base of 0.5 s, 0
\* for a base of 0.  No sleep precedes attempt 1.
C10_BackoffDoubles ==
    \A w \in Workers, p \in Phases :
        LET log == wk[w].log
            IsSleep(e) == e.ev = "sleep" /\ e.phase = p
            IsReq(e) == e.ev = "req" /\ e.phase = p
            sleeps == Sleeps(log, p)
            reqs == Requests(log, p)
        IN  \A k \in 1..Len(sleeps) :
              /\ sleeps[k].n = k
              /\ sleeps[k].ms = settings.retry_backoff_seconds * (2 ^ (k - 1))
              /\ k < settings.retry_max_attempts
              /\ Len(reqs) >= k
              /\ Is5xx(reqs[k])
              /\ NthIndex(log, IsReq, k) < NthIndex(log, IsSleep, k)
              /\ Len(reqs) > k => NthIndex(log, IsSleep, k) < NthIndex(log, IsReq, k + 1)

\* base 0.5 s: the sleeps before attempts 2 and 3 are 0.5 s and 1.0 s
C10_Witness ==
    LET sleeps == Sleeps(wk["w1"].log, "issue")
    IN  /\ settings.retry_backoff_seconds = 500
        /\ Len(sleeps) = 2
        /\ sleeps[1].ms = 500
        /\ sleeps[2].ms = 1000
        /\ Len(Requests(wk["w1"].log, "issue")) = 3

(***************************************************************************)
(* Properties of the cache and of the key normalization (Spec).            *)
(***************************************************************************)
\* a key without its surrounding whitespace: from its first to its last
\* character that is no whitespace
Trimmed(k) ==
    LET solid == {i \in 1..Len(k) : ~IsSpace(k[i])}
    IN  IF solid = {} THEN <<>>
        ELSE SubSeq(k, CHOOSE i \in solid : \A j \in solid : i <= j,
                       CHOOSE i \in solid : \A j \in solid : j <= i)

LowerChar(c) == IF c = "A" THEN "a" ELSE c

CaseFolded(k) == [i \in 1..Len(k) |-> LowerChar(k[i])]

\* two keys differ by letter case or surrounding whitespace only
SameKey(k1, k2) == CaseFolded(Trimmed(k1)) = CaseFolded(Trimmed(k2))

\* no lower-case letter and no surrounding whitespace
IsNormalKey(k) == Trimmed(k) = k /\ \A i \in 1..Len(k) : k[i] # "a"

\* worker w does its cache lookup in this step
LookupStep(w) == wk[w].pc = "in_read" /\ wk'[w].pc # "in_read"

\* worker w does its cache write in this step
WriteStep(w) == wk[w].pc = "in_write" /\ wk'[w].pc # "in_write"

\* the entry of key k exists and is younger than ttl_seconds
Fresh(k) == k \in DOMAIN cache /\ now - cache[k].ts < settings.cache_ttl_seconds

\* C3: with caching enabled, the cache changes only when a successful
\* fetch stores the document it got, and a fetchIssue that looks up a key
\* whose entry is younger than ttl_seconds returns the stored document
\* without any upstream request.
C3_FreshEntryServedWithoutRequest ==
    [][ /\ cache' # cache
           => \E w \in Workers :
                /\ WriteStep(w)
                /\ settings.enable_response_cache
                /\ wk[w].response.status < 400 /\ wk[w].response.body.ok
                /\ cache' = [k \in DOMAIN cache \cup {wk[w].nkey} |->
                               IF k = wk[w].nkey
                               THEN [ts |-> now, doc |-> wk[w].response.body.doc]
                               ELSE cache[k]]
        /\ \A w \in Workers :
             (LookupStep(w) /\ wk[w].op = "fetch" /\ Fresh(wk[w].nkey))
             => /\ wk'[w].pc = "done"
                /\ wk'[w].result = DocResult(cache[wk[w].nkey].doc)
                /\ Events(wk'[w].log, "req") = <<>>
                /\ cache' = cache ]_vars

\* a fetch served from an entry one tick old
C3_Witness ==
    /\ wk["w1"].op = "fetch"
    /\ wk["w1"].pc = "done"
    /\ wk["w1"].log = <<GetEvent("hit")>>
    /\ wk["w1"].nkey \in DOMAIN cache
    /\ now - cache[wk["w1"].nkey].ts = 1
    /\ wk["w1"].result = DocResult(cache[wk["w1"].nkey].doc)

\* C4: a lookup is a hit if and only if the key has an entry younger than
\* ttl_seconds; at an age of ttl_seconds or more the lookup misses and the
\* fetch goes to the upstream, and its success replaces the entry by the
\* new document stamped with the time of the write.
C4_HitIffYoungerThanTtl ==
    [][ \A w \in Workers :
          /\ LookupStep(w)
             => LET gets == Events(wk'[w].log, "get")
                IN  /\ Len(gets) = 1
                    /\ gets[1].kind = "hit" <=> Fresh(wk[w].nkey)
                    /\ ~Fresh(wk[w].nkey)
                       => /\ wk'[w].pc = "request"
                          /\ wk'[w].phase = "issue"
                          /\ wk'[w].attempt = 1
                          /\ wk'[w].result = NoResult
          /\ WriteStep(w)
             => /\ wk[w].nkey \in DOMAIN cache'
                /\ cache'[wk[w].nkey] = [ts |-> now, doc |-> wk[w].response.body.doc]
                /\ Len(Events(wk'[w].log, "req")) >= 1 ]_vars

\* a lookup that missed on an entry of age exactly ttl_seconds
C4_Witness ==
    /\ wk["w1"].pc = "request"
    /\ wk["w1"].log = <<GetEvent("miss")>>
    /\ wk["w1"].nkey \in DOMAIN cache
    /\ now - cache[wk["w1"].nkey].ts = settings.cache_ttl_seconds

\* C5: the key is trimmed and upper-cased before the cache lookup, the cache
\* write and the upstream request: the cache never holds two entries for
\* keys that differ by case or surrounding whitespace only, the issue URL
\* carries the normalized key, and a fetch whose key differs only that way
\* from the key of an entry younger than ttl_seconds is served from that
\* entry without an upstream request.
C5_KeysDifferingByCaseShareEntry ==
    [][ /\ \A c1, c2 \in DOMAIN cache' : IsNormalKey(c1) /\ (SameKey(c1, c2) => c1 = c2)
        /\ \A w \in Workers :
             /\ wk'[w].pc \in {"request", "sleep"} /\ wk'[w].phase = "issue"
                => LET c == [i \in 1..Len(Trimmed(wk'[w].key)) |->
                                  UpperChar(Trimmed(wk'[w].key)[i])]
                   IN  IsNormalKey(c) /\ SameKey(c, wk'[w].key) /\ wk'[w].url = IssueUrl(c)
             /\ WriteStep(w)
                => \E c \in DOMAIN cache' :
                     SameKey(c, wk[w].key) /\ cache'[c] = [ts |-> now, doc |-> wk[w].doc]
             /\ (LookupStep(w) /\ wk[w].op = "fetch")
                => \A c \in DOMAIN cache :
                     (SameKey(c, wk[w].key) /\ Fresh(c))
                     => /\ wk'[w].pc = "done"
                        /\ wk'[w].result = DocResult(cache[c].doc)
                        /\ Events(wk'[w].log, "req") = <<>>
                        /\ cache' = cache ]_vars

\* the key " a" served from the only entry, stored under "A"
C5_Witness ==
    /\ wk["w1"].op = "fetch"
    /\ wk["w1"].pc = "done"
    /\ wk["w1"].key = <<" ", "a">>
    /\ wk["w1"].log = <<GetEvent("hit")>>
    /\ DOMAIN cache = {<<"A">>}
    /\ wk["w1"].result = DocResult(cache[<<"A">>].doc)

(***************************************************************************)
(* Properties of both operations and of the stream (SpecStream).           *)
(***************************************************************************)
\* C6: for every issue key that is empty or whitespace only, fetchIssue and
\* streamAttachment fail with NotFound at once: no upstream request is
\* issued and the cache is neither read nor written.
C6_EmptyKeyNotFound ==
    \A w \in Workers :
        (wk[w].op \in {"fetch", "stream"} /\ Trimmed(wk[w].key) = <<>>)
        => /\ wk[w].pc = "done"
           /\ wk[w].result.kind = "NotFound"
           /\ wk[w].log = <<>>
           /\ wk[w].response = NoResponse
           /\ lock # w

\* streamAttachment of a whitespace key fails while the cache holds entries
C6_Witness ==
    /\ wk["w1"].op = "stream"
    /\ wk["w1"].key = <<" ">>
    /\ wk["w1"].pc = "done"
    /\ wk["w1"].result.kind = "NotFound"
    /\ settings.enable_response_cache
    /\ cache # <<>>

\* how often the response behind the stream of worker w was closed
StreamCloses(w) == Closes(wk[w].log, "attachment", wk[w].response.n)

\* C7: the upstream response behind a returned stream is never closed twice,
\* and it has been closed exactly once as soon as the consumer has read the
\* chunks to exhaustion, has closed the sequence after at least one chunk,
\* or has had a read raise.
C7_StreamClosedExactlyOnce ==
    \A w \in Workers :
        wk[w].result.kind = "stream"
        => /\ wk[w].response.phase = "attachment"
           /\ StreamCloses(w) <= 1
           /\ (wk[w].ended \/ wk[w].raised \/ (wk[w].chunks >= 1 /\ wk[w].genClosed))
              => StreamCloses(w) = 1

\* the consumer closed the sequence after the first chunk
C7_Witness ==
    /\ wk["w1"].result.kind = "stream"
    /\ wk["w1"].chunks = 1
    /\ wk["w1"].genClosed
    /\ ~wk["w1"].ended
    /\ ~wk["w1"].raised
    /\ StreamCloses("w1") = 1

\* the other two behaviours of the consumer, each followed by a close()
C7_ExhaustedThenClosed ==
    /\ wk["w1"].result.kind = "stream"
    /\ wk["w1"].ended
    /\ wk["w1"].genClosed
    /\ StreamCloses("w1") = 1

C7_RaisedMidStream ==
    /\ wk["w1"].result.kind = "stream"
    /\ wk["w1"].chunks >= 1
    /\ wk["w1"].raised
    /\ StreamCloses("w1") = 1

\* C11: with caching disabled the cache map stays empty and is never read
\* or written, whatever fetchIssue and streamAttachment calls are made, and
\* every fetchIssue with a key that is not empty goes to the upstream: its
\* first request is under way or has been issued.
C11_DisabledCacheStaysEmpty ==
    ~settings.enable_response_cache
    => /\ cache = <<>>
       /\ lock = NoWorker
       /\ \A w \in Workers :
            /\ Events(wk[w].log, "get") = <<>>
            /\ Events(wk[w].log, "put") = <<>>
            /\ (wk[w].op = "fetch" /\ Trimmed(wk[w].key) # <<>>)
               => \/ wk[w].pc = "request" /\ wk[w].phase = "issue" /\ wk[w].attempt = 1
                  \/ Len(Requests(wk[w].log, "issue")) >= 1

\* a fetch that succeeded over the network and left the cache empty
C11_Witness ==
    /\ ~settings.enable_response_cache
    /\ wk["w1"].op = "fetch"
    /\ wk["w1"].pc = "done"
    /\ wk["w1"].result.kind = "doc"
    /\ Len(Requests(wk["w1"].log, "issue")) >= 1
    /\ cache = <<>>

\* C12: when an operation ends with a failure (Timeout, NetworkUnreachable,
\* NotFound, Unauthorized, UpstreamError, the unparseable body included),
\* every response it received has been closed, once; the same holds when
\* fetchIssue returns its document.
Opened(log) == SelectSeq(log, LAMBDA e : e.ev = "req" /\ e.kind = "status")

C12_ResponsesClosedOnExit ==
    \A w \in Workers :
        (/\ wk[w].pc = "done"
         /\ \/ wk[w].result.kind \in Failures
            \/ wk[w].op = "fetch" /\ wk[w].result.kind = "doc")
        => \A i \in 1..Len(Opened(wk[w].log)) :
             Closes(wk[w].log, Opened(wk[w].log)[i].phase, Opened(wk[w].log)[i].n) = 1

\* streamAttachment fails on the final status of the attachment request
\* after a retried 5xx: the issue response and both attachment responses
\* are closed
C12_Witness ==
    /\ wk["w1"].pc = "done"
    /\ wk["w1"].op = "stream"
    /\ wk["w1"].result.kind = "Unauthorized"
    /\ Len(Requests(wk["w1"].log, "issue")) = 1
    /\ Len(Requests(wk["w1"].log, "attachment")) = 2
    /\ Len(Events(wk["w1"].log, "close")) = 3

\* C13: streamAttachment takes the first raw attachment whose id, in its
\* string form, equals the requested attachmentId.  If there is none, or
\* that entry has no content URL, the operation fails with NotFound and no
\* request for attachment content is issued; otherwise the attachment
\* request goes to the content URL of that entry.
IdMatches(id, attachment_id) ==
    \/ id.t = "str" /\ id.s = attachment_id
    \/ id.t = "int" /\ <<id.n, attachment_id>> \in {<<7, <<"7">> >>, <<8, <<"8">> >>}
    \/ id.t = "none" /\ attachment_id = <<"N", "o", "n", "e">>

\* the issue lookup of a streamAttachment is over and gave a document
IssueResolved(w) ==
    /\ wk[w].op = "stream"
    /\ wk[w].doc # NoDoc
    /\ wk[w].pc \notin {"lock_write", "in_write"}

C13_NoAttachmentNoContentRequest ==
    \A w \in Workers :
        IssueResolved(w)
        => LET atts == wk[w].doc.attachment
               hits == {i \in 1..Len(atts) : IdMatches(atts[i].id, wk[w].att)}
               first == CHOOSE i \in hits : \A j \in hits : i <= j
           IN  IF hits = {} \/ atts[first].content = NoUrl
               THEN /\ wk[w].pc = "done"
                    /\ wk[w].result.kind = "NotFound"
                    /\ wk[w].phase # "attachment"
                    /\ Requests(wk[w].log, "attachment") = <<>>
               ELSE /\ wk[w].phase = "attachment"
                    /\ wk[w].url = atts[first].content

\* the entry with the requested id has no content URL: NotFound after the
\* one request of the issue lookup
C13_Witness ==
    /\ IssueResolved("w1")
    /\ wk["w1"].att = <<"7">>
    /\ wk["w1"].doc.ver = 2
    /\ wk["w1"].result = JiraNotFoundError("Attachment download URL is unavailable")
    /\ Len(Requests(wk["w1"].log, "issue")) = 1
    /\ Requests(wk["w1"].log, "attachment") = <<>>

\* C14: when the attachment request of a streamAttachment ends with a
\* status s, the operation fails with the kind (and carried status) that
\* fetchIssue gives for s on the issue request, and gives a stream exactly
\* when fetchIssue would go on to the body, which is when s < 400.  When the
\* issue lookup of a streamAttachment fails, the operation fails with that
\* very failure.
LastOf(seq) == seq[Len(seq)]

C14_AttachmentStatusLikeIssueStatus ==
    \A w \in Workers :
        (wk[w].op = "stream" /\ wk[w].pc \in {"streaming", "done"})
        => LET areqs == Requests(wk[w].log, "attachment")
               ireqs == Requests(wk[w].log, "issue")
           IN  /\ (areqs # <<>> /\ LastOf(areqs).kind = "status")
                  => LET s == LastOf(areqs).status
                         ref == IssueOutcome(s, Body(TRUE, wk[w].doc))
                     IN  /\ (ref.kind = "doc") <=> (wk[w].result.kind = "stream")
                         /\ (wk[w].result.kind = "stream") <=> (s < 400)
                         /\ ref.kind # "doc"
                            => /\ wk[w].result.kind = ref.kind
                               /\ wk[w].result.status = ref.status
               /\ (areqs = <<>> /\ ireqs # <<>> /\ LastOf(ireqs).kind = "status"
                   /\ IssueOutcome(LastOf(ireqs).status, wk[w].response.body).kind # "doc")
                  => wk[w].result = IssueOutcome(LastOf(ireqs).status, wk[w].response.body)
               /\ (areqs = <<>> /\ ireqs # <<>> /\ LastOf(ireqs).kind # "status")
                  => wk[w].result.kind =
                        (IF LastOf(ireqs).kind = "timeout" THEN "Timeout"
                         ELSE "NetworkUnreachable")

\* the attachment request ends with 403 and the operation fails with
\* Unauthorized carrying 403
C14_Witness ==
    /\ wk["w1"].op = "stream"
    /\ wk["w1"].pc = "done"
    /\ Requests(wk["w1"].log, "attachment") # <<>>
    /\ LastOf(Requests(wk["w1"].log, "attachment")).status = 403
    /\ wk["w1"].result.kind = "Unauthorized"
    /\ wk["w1"].result.status = 403

(***************************************************************************)
(* Properties of the normalization (SpecNormalize).                        *)
(***************************************************************************)
RECURSIVE IsTree(_)
\* a document tree: every node is a mapping whose text, if any, is a string
\* and whose content, if any, is a list of such nodes
IsTree(v) ==
    /\ v.t = "dict"
    /\ v.text.t \in {"none", "str"}
    /\ v.content.t \in {"none", "list"}
    /\ v.content.t = "list" => \A i \in 1..Len(v.content.items) : IsTree(v.content.items[i])

RECURSIVE PreorderTexts(_)
RECURSIVE PreorderTextsOf(_)
\* the text values of a tree in depth-first pre-order
PreorderTexts(node) ==
    (IF node.text.t = "str" THEN <<node.text.s>> ELSE <<>>)
    \o (IF node.content.t = "list" THEN PreorderTextsOf(node.content.items) ELSE <<>>)

PreorderTextsOf(nodes) ==
    IF nodes = <<>> THEN <<>> ELSE PreorderTexts(Head(nodes)) \o PreorderTextsOf(Tail(nodes))

\* each text trimmed, the empty ones dropped, the rest joined by one space
TrimmedJoined(texts) ==
    LET trimmed == [i \in 1..Len(texts) |-> Strip(texts[i])]
    IN  JoinWith(SelectSeq(trimmed, LAMBDA x : x # <<>>), <<" ">>)

\* the extractor has run on a value
Extracted == norm.fn = "_extract_adf_text" /\ norm.done

\* C15: for every document tree the output of the Text Extractor is the
\* text values of the tree in depth-first pre-order (a node's text before
\* its children, children left to right), each trimmed, the empty ones
\* dropped, joined by one space; absent when nothing is left.
C15_PreorderTextsJoined ==
    (Extracted /\ IsTree(norm.arg))
    => norm.value = (IF TrimmedJoined(PreorderTexts(norm.arg)) = <<>> THEN VNone
                     ELSE VStr(TrimmedJoined(PreorderTexts(norm.arg))))

\* C16: whatever the input, the Text Extractor never returns a string that
\* is empty or consists of whitespace only.
C16_NeverBlankString ==
    (Extracted /\ norm.value.t = "str") => Strip(norm.value.s) # <<>>

\* the raw entry carries an identifier: an id that is present and not empty
CarriesIdentifier(id) == id.t = "int" \/ (id.t = "str" /\ id.s # <<>>)

\* the identifier as it is written in a path
IdentifierText(id) == IF id.t = "str" THEN id.s ELSE <<"1", "0", "0", "0", "1">>

\* C17: normalization gives one attachment descriptor per raw attachment
\* entry, in the order of the raw entries, and the descriptor's download
\* path is /jira/{issue key}/attachments/{id} when the raw entry carries an
\* identifier and absent when it does not.
C17_OneDescriptorPerAttachment ==
    (norm.fn = "_extract_attachments" /\ norm.done)
    => LET raw == norm.arg.raw_attachments
       IN  /\ Len(norm.value) = Len(raw)
           /\ \A i \in 1..Len(raw) :
                /\ norm.value[i].filename = raw[i].filename
                /\ CarriesIdentifier(raw[i].id)
                   => norm.value[i].download_url =
                        <<"/jira/", norm.arg.issue_key, "/attachments/", IdentifierText(raw[i].id)>>
                /\ ~CarriesIdentifier(raw[i].id) => norm.value[i].download_url = NoPath

\* an entry without id before the entry with id "10001" on issue ABC-123
C17_Witness ==
    /\ norm.fn = "_extract_attachments"
    /\ norm.done
    /\ norm.arg.issue_key = "ABC-123"
    /\ norm.arg.raw_attachments = <<RawAttachment(NoId, "f1"), RawAttachment(StrId(<<"1", "0", "0", "0", "1">>), "f2")>>
    /\ norm.value[1].download_url = NoPath
    /\ norm.value[2].download_url = <<"/jira/", "ABC-123", "/attachments/", <<"1", "0", "0", "0", "1">> >>

(***************************************************************************)
(* Properties of the route layer (SpecRoute).                              *)
(***************************************************************************)
\* the issue keys of RouteKeys that have the form PROJECT-123
WellFormedKeys == { <<"A", "B", "-", "1">>, <<"A", "1", "-", "1", "2">> }

\* the attachment ids of RouteAttachmentIds that are numbers
WellFormedAttachmentIds == {<<"7">>, <<"8">>, <<"9">>}

\* the request of the worker fails the pattern of one of its parameters
Malformed(w) ==
    /\ wk[w].route # "none"
    /\ \/ wk[w].key \notin WellFormedKeys
       \/ wk[w].route = "attachment" /\ wk[w].att \notin WellFormedAttachmentIds

\* C18: on each of the three endpoints a request whose issue key (or, on
\* the attachment route, whose attachment id) does not match its pattern is
\* answered with 422 and the core is never called: the operation has no
\* cache access and no upstream request, and the cache lock is not taken.
C18_MalformedRequestRejected ==
    \A w \in Workers :
        Malformed(w)
        => /\ wk[w].reply = Unprocessable
           /\ wk[w].op = "none"
           /\ wk[w].log = <<>>
           /\ lock # w

\* the tool endpoint has rejected a key in lower case
C18_Witness ==
    /\ wk["w1"].route = "tool"
    /\ wk["w1"].key = <<"a", "A", "-", "1">>
    /\ wk["w1"].reply.status = 422
    /\ wk["w1"].op = "none"

\* C19: once a route has answered for a call of the core, the answer is
\* the one of the core's outcome and of no other: on the two GET routes
\* NotFound gives 404, Unauthorized the status it carries (401 or 403),
\* Timeout 504, NetworkUnreachable 503, any other core error 502; on the
\* tool endpoint the same kinds give ok = false with the codes NOT_FOUND,
\* UNAUTHORIZED, TIMEOUT, NETWORK_ERROR, JIRA_ERROR and no data, and a
\* success gives ok = true with the data and no error.
C19_FailureKindsMapped ==
    \A w \in Workers :
        (wk[w].route # "none" /\ wk[w].op # "none" /\ wk[w].reply # NoReply)
        => LET kind == wk[w].result.kind
               reply == wk[w].reply
           IN  IF wk[w].route = "tool"
               THEN /\ reply.ok <=> kind = "doc"
                    /\ reply.ok => reply.data = wk[w].result.doc /\ reply.code = ""
                    /\ ~reply.ok => reply.data = NoDoc
                    /\ kind = "NotFound" <=> reply.code = "NOT_FOUND"
                    /\ kind = "Unauthorized" <=> reply.code = "UNAUTHORIZED"
                    /\ kind = "Timeout" <=> reply.code = "TIMEOUT"
                    /\ kind = "NetworkUnreachable" <=> reply.code = "NETWORK_ERROR"
                    /\ kind = "UpstreamError" <=> reply.code = "JIRA_ERROR"
               ELSE /\ kind = "NotFound" <=> reply.status = 404
                    /\ kind = "Unauthorized"
                       <=> reply.status \in {401, 403} /\ reply.status = wk[w].result.status
                    /\ kind = "Timeout" <=> reply.status = 504
                    /\ kind = "NetworkUnreachable" <=> reply.status = 503
                    /\ kind = "UpstreamError" <=> reply.status = 502
                    /\ kind \in {"doc", "stream"} <=> reply.status = 200

\* the attachment route has answered 504 for a Timeout of the core
C19_Witness ==
    /\ wk["w1"].route = "attachment"
    /\ wk["w1"].result.kind = "Timeout"
    /\ wk["w1"].reply.status = 504

(***************************************************************************)
(* Properties of concurrent fetches (SpecConc).                            *)
(***************************************************************************)
\* worker w ran a fetch that missed the cache, went to the upstream and
\* wrote the cache, and is over
MissedFetchedWrote(w) ==
    /\ wk[w].pc = "done"
    /\ Events(wk[w].log, "get") = <<GetEvent("miss")>>
    /\ Requests(wk[w].log, "issue") # <<>>
    /\ Events(wk[w].log, "put") = <<PutEvent>>

\* C20: however concurrent fetchIssue calls interleave, the cache holds at
\* most one entry per normalized key, and every write of a call replaces
\* the entry of its key by that call's document and leaves the other
\* entries alone, nothing else changing the cache: so after two calls that
\* both missed and both wrote, the entry holds the document of the call
\* that wrote last.
C20_LastWriteWins ==
    [][ /\ \A c1, c2 \in DOMAIN cache' : SameKey(c1, c2) => c1 = c2
        /\ \A w \in Workers :
             WriteStep(w)
             => /\ DOMAIN cache' = DOMAIN cache \cup {wk[w].nkey}
                /\ cache'[wk[w].nkey].doc = wk[w].doc
                /\ \A k \in DOMAIN cache \ {wk[w].nkey} : cache'[k] = cache[k]
        /\ cache' # cache => \E w \in Workers : WriteStep(w) ]_vars

\* two calls for the same key, written differently, both missed, both
\* fetched and both wrote; they got different documents and the entry
\* holds the one of the second worker
C20_Witness ==
    /\ MissedFetchedWrote("w1")
    /\ MissedFetchedWrote("w2")
    /\ wk["w1"].key # wk["w2"].key
    /\ wk["w1"].nkey = wk["w2"].nkey
    /\ wk["w1"].doc # wk["w2"].doc
    /\ cache[wk["w2"].nkey].doc = wk["w2"].doc

(***************************************************************************)
(* Properties of the release of connections.                               *)
(***************************************************************************)
\* C21: once the consumer of a returned stream has been cancelled, that is
\* once its chunk sequence has been closed, at whatever point after
\* streamAttachment returned the stream and also before the first chunk was
\* read, the upstream response behind the stream has been closed.
C21_CancellationReleasesConnection ==
    \A w \in Workers :
        (wk[w].result.kind = "stream" /\ wk[w].genClosed) => StreamCloses(w) = 1

\* the responses of the phase that were received and are not closed
OpenResponses(log, p) ==
    {n \in 1..Len(log) :
        /\ \E i \in 1..Len(log) : log[i] = ReqEvent(p, n, "status", log[i].status)
        /\ Closes(log, p, n) = 0}

\* C22: in _request_with_retry the response of every attempt that is
\* followed by a sleep or by another attempt (a 5xx that is not the last
\* attempt) is closed, once, before that sleep starts and so before the
\* next request is issued; the executor never has more than one response
\* open.
C22_RetriedResponseClosedBeforeSleep ==
    \A w \in Workers, p \in Phases :
        LET log == wk[w].log
            sleeps == Sleeps(log, p)
            reqs == Requests(log, p)
        IN  /\ Cardinality(OpenResponses(log, p)) <= 1
            /\ \A k \in 1..Len(sleeps) :
                 LET IsSleep(e) == e.ev = "sleep" /\ e.phase = p
                     IsClose(e) == e = CloseEvent(p, k)
                 IN  /\ Closes(log, p, k) = 1
                     /\ NthIndex(log, IsClose, 1) < NthIndex(log, IsSleep, k)
            /\ \A k \in 1..(Len(reqs) - 1) :
                 LET IsReq(e) == e.ev = "req" /\ e.phase = p
                     IsClose(e) == e = CloseEvent(p, k)
                 IN  /\ Closes(log, p, k) = 1
                     /\ NthIndex(log, IsClose, 1) < NthIndex(log, IsReq, k + 1)

\* two retried 5xx responses, both closed, the second backoff sleep under way
C22_Witness ==
    /\ wk["w1"].pc = "sleep"
    /\ Len(Sleeps(wk["w1"].log, "issue")) = 2
    /\ Closes(wk["w1"].log, "issue", 1) = 1
    /\ Closes(wk["w1"].log, "issue", 2) = 1
    /\ OpenResponses(wk["w1"].log, "issue") = {}

(***************************************************************************)
(* Properties of the frame of the cache.                                   *)
(***************************************************************************)
\* worker w runs a streamAttachment whose issue lookup was a cache hit and
\* which has returned its stream
StreamedFromCache(w) ==
    /\ wk[w].op = "stream"
    /\ Events(wk[w].log, "get") = <<GetEvent("hit")>>
    /\ wk[w].result.kind = "stream"

\* C23 as the spec states it: with a live cache entry of the owning issue
\* a successful streamAttachment issues exactly one upstream request.
C23_ExactlyOneRequest ==
    \A w \in Workers :
        StreamedFromCache(w) => Len(Events(wk[w].log, "req")) = 1

\* what holds of a stream served from a cached issue: no request for the
\* issue, and one call of the retry executor for the content URL
OneExecutorCall(w) ==
    LET reqs == Requests(wk[w].log, "attachment")
        atts == wk[w].doc.attachment
        hits == {i \in 1..Len(atts) : IdMatches(atts[i].id, wk[w].att)}
        first == CHOOSE i \in hits : \A j \in hits : i <= j
    IN  /\ Requests(wk[w].log, "issue") = <<>>
        /\ Len(reqs) \in 1..settings.retry_max_attempts
        /\ \A i \in 1..(Len(reqs) - 1) : Is5xx(reqs[i])
        /\ IsStatus(reqs[Len(reqs)]) /\ reqs[Len(reqs)].status < 400
        /\ hits # {}
        /\ wk[w].url = atts[first].content
        /\ wk[w].params = {}
        /\ wk[w].stream
        /\ Events(wk[w].log, "put") = <<>>
        /\ wk[w].nkey \in DOMAIN cache
        /\ cache[wk[w].nkey].doc = wk[w].doc

\* C23 (amended): when the owning issue has a live cache entry, a
\* successful streamAttachment issues no request for the issue and makes
\* one call of the retry executor for the attachment content URL, streamed
\* and without query parameters: one request, or up to max_attempts
\* requests when 5xx answers are retried.  No step of the attachment
\* request or of the consumption of the stream changes the cache.
C23_OneExecutorCallCacheUntouched ==
    [][ \A w \in Workers :
          /\ StreamedFromCache(w)' => OneExecutorCall(w)'
          /\ (wk'[w] # wk[w] /\ (wk[w].phase = "attachment" \/ wk[w].pc = "streaming"))
             => cache' = cache ]_vars

\* the issue came from the cache, the content request answered 502 and
\* then 200, and the consumer has read the stream to its end
C23_Witness ==
    /\ StreamedFromCache("w1")
    /\ StatusesOf(Requests(wk["w1"].log, "attachment")) = <<502, 200>>
    /\ wk["w1"].ended
    /\ Events(wk["w1"].log, "put") = <<>>

(***************************************************************************)
(* Further properties of the normalization (SpecNormalize).                *)
(***************************************************************************)
\* the children of a tree given as a bare list of nodes
IsNodeList(v) == v.t = "list" /\ \A i \in 1..Len(v.items) : IsTree(v.items[i])

\* the text values of every level of the input, the root included
TextsOfEveryLevel(v) == IF v.t = "list" THEN PreorderTextsOf(v.items) ELSE PreorderTexts(v)

\* C24: the Text Extractor scans every level of its input alike: the text
\* of every node, the root node included, is part of the output, and a bare
\* list of nodes at the top level is traversed like a list of children.
C24_EveryLevelScanned ==
    (Extracted /\ (IsTree(norm.arg) \/ IsNodeList(norm.arg)))
    => norm.value = (IF TrimmedJoined(TextsOfEveryLevel(norm.arg)) = <<>> THEN VNone
                     ELSE VStr(TrimmedJoined(TextsOfEveryLevel(norm.arg))))

\* C25: whatever is missing, null or of an unexpected type in the fields
\* text and content of the input, the Text Extractor returns a string or
\* absent: the extraction never fails.
C25_ExtractionNeverFails ==
    Extracted => norm.value.t \in {"str", "none"}

\* a rendered body that is present: a string that is not empty
BodyPresent(b) == b.t = "str" /\ b.s # <<>>

\* the value of the Text Extractor for a raw body of RawComments
ExtractedBody(b) ==
    CASE b = VStr(<<"a">>) -> VStr(<<"a">>)
      [] b = VDict(VNone, VList(<<VDict(VStr(<<"b">>), VNone)>>)) -> VStr(<<"b">>)
      [] OTHER -> VNone

\* C26: normalization gives one comment per raw comment, in raw order; the
\* body of the comment at index i is the rendered body at index i when the
\* rendered list has an entry i whose body is present, and the Text
\* Extractor's result for the raw body otherwise, that is when the rendered
\* list is shorter or has no body at that index.
C26_CommentsPairedByIndex ==
    (norm.fn = "_extract_comments" /\ norm.done)
    => LET raw == norm.arg.raw_comments
           rendered == norm.arg.rendered_comments
       IN  /\ Len(norm.value) = Len(raw)
           /\ \A i \in 1..Len(raw) :
                /\ norm.value[i].created = raw[i].created
                /\ norm.value[i].body =
                      (IF i <= Len(rendered) /\ BodyPresent(rendered[i].body)
                       THEN rendered[i].body
                       ELSE ExtractedBody(raw[i].body))

\* two raw comments and one rendered comment: the first body is the rendered
\* one, the second the text of the raw body
C26_Witness ==
    /\ norm.fn = "_extract_comments"
    /\ norm.done
    /\ Len(norm.arg.raw_comments) = 2
    /\ Len(norm.arg.rendered_comments) = 1
    /\ norm.value[1].body = VStr(<<"h">>)
    /\ norm.arg.raw_comments[2].body = VDict(VNone, VList(<<VDict(VStr(<<"b">>), VNone)>>))
    /\ norm.value[2].body = VStr(<<"b">>)
    /\ norm.value[1].created = "t1"
    /\ norm.value[2].created = "t2"

(***************************************************************************)
(* Properties of the cache lock (SpecConc).                                *)
(***************************************************************************)
\* worker w reads or writes the cache map in this step
AccessStep(w) ==
    \/ LookupStep(w)
    \/ WriteStep(w)
    \/ Len(Events(wk'[w].log, "get")) > Len(Events(wk[w].log, "get"))
    \/ Len(Events(wk'[w].log, "put")) > Len(Events(wk[w].log, "put"))

\* C27: every read and every write of the cache map is done by the worker
\* that holds the cache lock, and the cache changes in no other step; a
\* worker holds the lock only for one lookup or one write, so never while
\* its upstream request is in flight or while it sleeps between attempts.
C27_LockOnlyAroundMapAccess ==
    [][ /\ \A w \in Workers :
             /\ AccessStep(w) => lock = w
             /\ lock' = w <=> wk'[w].pc \in {"in_read", "in_write"}
             /\ wk'[w].pc \in {"request", "sleep"} => lock' # w
        /\ cache' # cache => \E w \in Workers : lock = w /\ WriteStep(w) ]_vars

\* the first worker sleeps between two attempts while the second one holds
\* the lock for its lookup
C27_Witness ==
    /\ wk["w1"].pc = "sleep"
    /\ lock = "w2"
    /\ wk["w2"].pc = "in_read"

(***************************************************************************)
(* Properties of failures and hits over the cache (SpecFrame, Spec).       *)
(***************************************************************************)
\* the operation of worker w has ended in a failure
Failed(w) == wk[w].pc = "done" /\ wk[w].result.kind \in Failures

\* the operation of worker w has written the cache
Wrote(w) == Events(wk[w].log, "put") # <<>>

\* C28 as the spec states it: an operation that ends in a failure has not
\* changed the cache.
C28_FailedOperationWroteNothing ==
    \A w \in Workers : Failed(w) => ~Wrote(w)

\* C28 (amended): the cache changes only in the write of an operation whose
\* issue request answered below 400 with a parseable document, and that
\* write stores this document under the operation's key; every write is in
\* the operation's log.  So a fetchIssue that fails, and a streamAttachment
\* whose issue lookup fails, have written nothing, and an entry of the key,
\* stale or not, is as it was; a streamAttachment that fails after its
\* issue lookup has stored the document it fetched, and nothing else.
C28_FailuresNeverCached ==
    [][ /\ cache' # cache
           => \E w \in Workers :
                /\ WriteStep(w)
                /\ wk[w].response.phase = "issue"
                /\ wk[w].response.status < 400
                /\ wk[w].response.body.ok
                /\ cache' = [k \in DOMAIN cache \cup {wk[w].nkey} |->
                               IF k = wk[w].nkey
                               THEN [ts |-> now, doc |-> wk[w].response.body.doc]
                               ELSE cache[k]]
        /\ \A w \in Workers :
             /\ WriteStep(w) => Len(Events(wk'[w].log, "put")) = Len(Events(wk[w].log, "put")) + 1
             /\ (Failed(w)' /\ wk'[w].op = "fetch") => ~Wrote(w)'
             /\ (Failed(w)' /\ wk'[w].doc = NoDoc) => ~Wrote(w)'
             /\ (Failed(w)' /\ Wrote(w)')
                => /\ wk'[w].op = "stream"
                   /\ cache'[wk'[w].nkey].doc = wk'[w].doc
                   /\ \/ Requests(wk'[w].log, "attachment") # <<>>
                      \/ wk'[w].result.msg \in {"Attachment not found for this issue",
                                                "Attachment download URL is unavailable"} ]_vars

\* a fetchIssue found a stale entry, fetched again and failed: the entry is
\* still there, still stale
C28_Witness ==
    /\ Failed("w1")
    /\ wk["w1"].op = "fetch"
    /\ Events(wk["w1"].log, "get") = <<GetEvent("miss")>>
    /\ Requests(wk["w1"].log, "issue") # <<>>
    /\ wk["w1"].nkey \in DOMAIN cache
    /\ now - cache[wk["w1"].nkey].ts >= settings.cache_ttl_seconds
    /\ ~Wrote("w1")

\* C29: a cache lookup, hit or miss, leaves the cache as it is: a hit does
\* not store the entry again, so the entry keeps the time and the document
\* of the write that created it.  As a lookup hits exactly while the entry
\* is younger than ttl_seconds and only a write sets an entry's time, the
\* entry is no longer served ttl_seconds after that write, whatever the
\* number of hits before.
C29_HitLeavesCacheUnchanged ==
    [][ /\ \A w \in Workers :
             /\ LookupStep(w)
                => /\ cache' = cache
                   /\ LastOf(wk'[w].log) = GetEvent("hit")
                      <=> /\ wk[w].nkey \in DOMAIN cache
                          /\ now - cache[wk[w].nkey].ts < settings.cache_ttl_seconds
             /\ WriteStep(w) => cache'[wk[w].nkey].ts = now
        /\ cache' # cache => \E w \in Workers : WriteStep(w) ]_vars

\* a hit on an entry written one tick earlier: the entry still has the time
\* of its write
C29_Witness ==
    /\ wk["w1"].pc = "done"
    /\ wk["w1"].log = <<GetEvent("hit")>>
    /\ now - cache[wk["w1"].nkey].ts >= 1
    /\ cache[wk["w1"].nkey].doc = wk["w1"].result.doc

\* the executor is in its loop: a request is pending or it sleeps
InRetryLoop(w) == wk[w].pc \in {"request", "sleep"}

\* what the executor ended with: the response of its last request, or the
\* failure raised for it
EndedWithResponseOrTransportFailure(w) ==
    LET reqs == Requests(wk[w].log, wk[w].phase)
        last == reqs[Len(reqs)]
    IN  /\ Len(reqs) >= 1
        /\ IF last.kind = "status"
           THEN /\ wk[w].response.phase = wk[w].phase
                /\ wk[w].response.n = Len(reqs)
                /\ wk[w].response.status = last.status
                /\ wk[w].result.kind \notin {"Timeout", "NetworkUnreachable"}
           ELSE /\ wk[w].response = NoResponse
                /\ wk[w].result.kind \in {"Timeout", "NetworkUnreachable"}

\* C30: for every max_attempts in 1..8, with an upstream of which every
\* request returns or fails, the retry executor leaves its loop; it has then
\* issued at most max_attempts requests and ended with a response, Timeout
\* or NetworkUnreachable, and never with "Unexpected Jira retry state".
C30_RetryTerminates ==
    /\ [](\A w \in Workers :
            /\ Len(Requests(wk[w].log, wk[w].phase)) <= settings.retry_max_attempts
            /\ wk[w].result.msg # "Unexpected Jira retry state"
            /\ wk[w].pc = "done" => EndedWithResponseOrTransportFailure(w))
    /\ InRetryLoop("w1") ~> wk["w1"].pc = "done"

\* max_attempts 8 and eight 5xx answers: the eighth response is returned
C30_Witness ==
    /\ settings.retry_max_attempts = 8
    /\ wk["w1"].pc = "done"
    /\ Len(Requests(wk["w1"].log, "issue")) = 8
    /\ wk["w1"].response.n = 8
    /\ wk["w1"].response.status >= 500

====
